---- MODULE Spec2Model ----
(***************************************************************************)
(* A model of pr_agent/tools/pr_code_suggestions.py (class                 *)
(* PRCodeSuggestions) and pr_agent/tools/pr_questions.py (class            *)
(* PRQuestions).                                                           *)
(*                                                                         *)
(* One object serves one request.  The git provider, the AI handler and    *)
(* the YAML loader are collaborators outside these files: every call to    *)
(* one of them either returns one of the values it can return or raises,   *)
(* chosen nondeterministically.  Python values are TLA+ records; a text    *)
(* the model returns is represented by the value the YAML loader yields    *)
(* for it.                                                                 *)
(***************************************************************************)
EXTENDS Integers, Sequences, FiniteSets, TLC

VARIABLES
    pc,                \* position of the thread of control
    op,                \* the method the caller invoked
    result,            \* "none" | "returned" | "raised": how op ended
    ret,               \* the value op returned
    calls,             \* the collaborator calls of the request, in order
    logs,              \* what the request logged, in order
    patches_diff,      \* self.patches_diff
    prediction,        \* self.prediction
    prediction_list,   \* prediction_list, self.prediction_list
    patches_diff_list, \* patches_diff_list of _prepare_prediction_extended
    data,              \* the `data` dict (parameter or local), self.data
    i,                 \* index of the loop the thread of control is in
    suggestions_labels,\* suggestions_labels of publish_summarizes_suggestions
    pr_body,           \* pr_body of publish_summarizes_suggestions
    code_suggestions,  \* code_suggestions of push_inline_code_suggestions
    suggestion_list,   \* suggestion_list of rank_suggestions
    data_sorted,       \* data_sorted of rank_suggestions
    named_outside,     \* the 'Sort Order' read so far named a suggestion number
                       \* that is not the number of a suggestion
    responses,         \* the texts the model answers with, one per call
    settings,          \* get_settings(), read only
    supported,         \* the capabilities git_provider.is_supported confirms
    args,              \* the args the PRCodeSuggestions object is built with
    question_str,      \* self.question_str of the PRQuestions object
    is_extended,       \* self.is_extended
    num_code_suggestions \* self.vars["num_code_suggestions"]

\* what the object is built from and with: no method changes it
inputs == <<args, question_str>>
built == <<is_extended, num_code_suggestions>>
env == <<responses, settings, supported, inputs, built>>
fields == <<patches_diff, prediction, prediction_list>>
summLocals == <<suggestions_labels, pr_body>>
rankLocals == <<suggestion_list, data_sorted, named_outside>>

vars == <<pc, op, result, ret, calls, logs, fields, patches_diff_list, data, i,
          summLocals, code_suggestions, rankLocals, env>>

----------------------------------------------------------------------------
(* Bounds *)

\* longest list of suggestion records in one model response
MaxSuggestions == 3
\* most diff chunks get_pr_multi_diffs returns
MaxChunks == 2
\* longest list of suggestion records in the response to one chunk
MaxChunkLen == 1
\* longest suggestion list handed to a publisher
MaxPublished == 3
\* longest suggestion list handed to rank_suggestions
MaxRanked == 3
\* most entries of a 'Sort Order' the model answers with
MaxSortOrder == 3
\* most characters of a text the model answers a question with
MaxAnswerLen == 3
\* most arguments a PRCodeSuggestions object is built with
MaxArgs == 2

----------------------------------------------------------------------------
(* Python values *)

None == [py |-> "None"]

\* a text the model answers with, named by what load_yaml yields for it
ModelText(y) == [yaml |-> y]

\* what load_yaml yields: None, a list or a dict
YamlNone == [kind |-> "none"]
YamlList(items) == [kind |-> "list", val |-> items]
YamlDict(d) == [kind |-> "dict", val |-> d]

\* a YAML scalar: an integer, or a text that is no number
YamlInt(n) == [int |-> n]
YamlStr(t) == [str |-> t]

\* the value `[]`, which is a list and no suggestion dict
EmptyList == [kind |-> "list", val |-> <<>>]

IsDict(v) == "kind" \notin DOMAIN v /\ "py" \notin DOMAIN v

HasKey(d, k) == IsDict(d) /\ k \in DOMAIN d

RemoveKey(d, k) == [f \in DOMAIN d \ {k} |-> d[f]]

SeqsUpTo(S, n) == UNION {[1..k -> S] : k \in 0..n}

----------------------------------------------------------------------------
(* Suggestion records *)

Suggestion(content, existing, improved, label, file, first, last) ==
    [relevant_file |-> file, suggestion_content |-> content,
     existing_code |-> existing, improved_code |-> improved,
     relevant_lines_start |-> first, relevant_lines_end |-> last,
     label |-> label]

\* a label is a sequence of characters
Enhancement == <<"e">>

Basic(content, existing, improved) ==
    Suggestion(content, existing, improved, Enhancement, "a.py", YamlInt(1), YamlInt(2))

\* records with existing_code # improved_code
RealRecords == {Basic("s1", "x", "y"), Basic("s2", "y", "x")}
\* records with existing_code = improved_code
NoOpRecords == {Basic("s1", "x", "x"), Basic("s2", "y", "y")}
\* records lacking one of the two code fields
BrokenRecords == {RemoveKey(Basic("s1", "x", "y"), "existing_code"),
                  RemoveKey(Basic("s2", "x", "y"), "improved_code")}

ResponseRecords == RealRecords \cup NoOpRecords \cup BrokenRecords

\* labels as the model writes them: bare, quoted with a trailing blank, and
\* double-quoted
QuotedEnhancement == <<"'", "e", "'", " ">>
Performance == <<"\"", "p", "\"">>

\* the records a publisher is handed: three whole ones, one whose line number
\* is no integer and one without improved_code
PublishRecords ==
    {Suggestion("s1", "x", "y", Enhancement, "a.py", YamlInt(1), YamlInt(2)),
     Suggestion("s2", "y", "x", QuotedEnhancement, "b.py", YamlInt(3), YamlInt(3)),
     Suggestion("s3", "x", "z", Performance, "a.py", YamlInt(1), YamlInt(1)),
     Suggestion("s4", "y", "z", Enhancement, "a.py", YamlStr("one"), YamlInt(2)),
     RemoveKey(Suggestion("s5", "z", "y", Performance, "b.py", YamlInt(1), YamlInt(2)),
               "improved_code")}

PublishInputs ==
    {[code_suggestions |-> items] : items \in SeqsUpTo(PublishRecords, MaxPublished)}

\* a dict the loader yields that has no 'code_suggestions' key
NoKeyDict == [review |-> "text"]

\* the values load_yaml yields for the texts the model can answer with
Predictions ==
    {ModelText(YamlNone), ModelText(YamlDict(NoKeyDict))}
    \cup {ModelText(YamlList(items)) :
             items \in SeqsUpTo(ResponseRecords, MaxSuggestions)}
    \cup {ModelText(YamlDict([code_suggestions |-> items])) :
             items \in SeqsUpTo(ResponseRecords, MaxSuggestions)}

\* the answers to one chunk's prompt in extended mode
ChunkRecords == RealRecords \cup {Basic("s1", "x", "x")}

ChunkPredictions ==
    {ModelText(YamlNone),
     ModelText(YamlList(<<RemoveKey(Basic("s2", "x", "y"), "improved_code")>>))}
    \cup {ModelText(YamlDict([code_suggestions |-> items])) :
             items \in SeqsUpTo(ChunkRecords, MaxChunkLen)}

\* the diff texts the git provider returns
Diff(n) == [diff |-> n]
Diffs == {Diff(1), Diff(2)}

----------------------------------------------------------------------------
(* Outcomes of a step that may raise *)

Ok(v) == [raised |-> FALSE, val |-> v]
Raised == [raised |-> TRUE]

Call(fn, arg, res) == [fn |-> fn, arg |-> arg, res |-> res]

----------------------------------------------------------------------------
(* _prepare_pr_code_suggestions *)

\* load_yaml(review, keys_fix_yaml=...) of pr_agent.algo.utils
load_yaml(text) == text.yaml

\* line 131 with `==` written for `!=`
Differs_Inverted(suggestion) == suggestion.existing_code = suggestion.improved_code

\* the `!=` of line 131
Differs(suggestion) == suggestion.existing_code # suggestion.improved_code

\* the loop of lines 130-135 from index k on, kept being suggestion_list so far
RECURSIVE FilterSuggestions(_, _, _)
FilterSuggestions(items, k, kept) ==
    IF k > Len(items) THEN Ok(kept)
    ELSE IF ~ (HasKey(items[k], "existing_code") /\ HasKey(items[k], "improved_code"))
         THEN Raised
    ELSE IF Differs(items[k])
         THEN FilterSuggestions(items, k + 1, Append(kept, items[k]))
    ELSE FilterSuggestions(items, k + 1, kept)

\* the debug lines of 134-135, one entry per skipped record
SkippedLog(items) ==
    SelectSeq([j \in 1..Len(items) |->
                  IF Differs(items[j]) THEN "kept" ELSE "debug: skipping suggestion"],
              LAMBDA x : x # "kept")

\* lines 122-126: the text stripped and loaded, a list wrapped into a dict
LoadedData(p) ==
    LET loaded == load_yaml(p)
    IN IF loaded.kind = "list" THEN [code_suggestions |-> loaded.val]
       ELSE IF loaded.kind = "dict" THEN loaded.val
       ELSE None

\* the whole method on self.prediction = p: Raised, or Ok(the dict returned)
prepare_pr_code_suggestions(p) ==
    IF p = None THEN Raised                      \* None.strip()
    ELSE LET d == LoadedData(p)
         IN IF ~ HasKey(d, "code_suggestions") THEN Raised
            ELSE LET kept == FilterSuggestions(d.code_suggestions, 1, <<>>)
                 IN IF kept.raised THEN Raised
                    ELSE Ok([d EXCEPT !.code_suggestions = kept.val])

----------------------------------------------------------------------------
(* _prepare_prediction_extended: the merge of lines 241-244 *)

EmptyDict == [k \in {} |-> None]

\* dict.update
Update(d, e) == [k \in DOMAIN d \cup DOMAIN e |-> IF k \in DOMAIN e THEN e[k] ELSE d[k]]

\* lines 241-244 without the extend branch: every chunk's dict replaces data's
MergeChunk_Overwrite(d, data_per_chunk) == Update(d, data_per_chunk)

\* lines 241-244: the chunk's dict merged into data
MergeChunk(d, data_per_chunk) ==
    IF "code_suggestions" \in DOMAIN d
    THEN [d EXCEPT !.code_suggestions = @ \o data_per_chunk.code_suggestions]
    ELSE Update(d, data_per_chunk)

----------------------------------------------------------------------------
(* publish_summarizes_suggestions: labels, groups and rows *)

Whitespace == {" "}

RECURSIVE lstrip(_, _)
lstrip(text, chars) ==
    IF text # <<>> /\ Head(text) \in chars THEN lstrip(Tail(text), chars) ELSE text

RECURSIVE rstrip(_, _)
rstrip(text, chars) ==
    IF text # <<>> /\ text[Len(text)] \in chars
    THEN rstrip(SubSeq(text, 1, Len(text) - 1), chars) ELSE text

strip(text, chars) == rstrip(lstrip(text, chars), chars)

\* line 322: suggestion['label'].strip().strip("'").strip('"')
StripLabel(label) == strip(strip(strip(label, Whitespace), {"'"}), {"\""})

\* lines 323-325 without the test of line 323: every suggestion opens a list
AddToLabel_AlwaysNew(labels, label, suggestion) ==
    Append(labels, [label |-> label, suggestions |-> <<suggestion>>])

\* lines 323-325: suggestion appended to the list of its label, a new label
\* entering suggestions_labels last
AddToLabel(labels, label, suggestion) ==
    IF \E g \in 1..Len(labels) : labels[g].label = label
    THEN [g \in 1..Len(labels) |->
            IF labels[g].label = label
            THEN [labels[g] EXCEPT !.suggestions = Append(@, suggestion)]
            ELSE labels[g]]
    ELSE Append(labels, [label |-> label, suggestions |-> <<suggestion>>])

\* the loop of lines 321-325 from index k on
RECURSIVE GroupByLabel(_, _, _)
GroupByLabel(items, k, labels) ==
    IF k > Len(items) THEN Ok(labels)
    ELSE IF ~ HasKey(items[k], "label") THEN Raised
    ELSE GroupByLabel(items, k + 1,
                      AddToLabel(labels, StripLabel(items[k].label), items[k]))

\* the order in which the loops of lines 327-330 visit the suggestions
RECURSIVE VisitOrder(_, _)
VisitOrder(labels, g) ==
    IF g > Len(labels) THEN <<>>
    ELSE [k \in 1..Len(labels[g].suggestions) |->
             [label |-> labels[g].label, suggestion |-> labels[g].suggestions[k],
              first |-> (k = 1)]]
         \o VisitOrder(labels, g + 1)

\* int(v) does not raise
IsIntLike(v) == "int" \in DOMAIN v

\* lines 332-334 do not raise
LocationOk(s) ==
    /\ HasKey(s, "relevant_file")
    /\ HasKey(s, "relevant_lines_start") /\ IsIntLike(s.relevant_lines_start)
    /\ HasKey(s, "relevant_lines_end") /\ IsIntLike(s.relevant_lines_end)

\* lines 339-343 do not raise
TextsOk(s) ==
    /\ HasKey(s, "suggestion_content")
    /\ HasKey(s, "existing_code")
    /\ HasKey(s, "improved_code")

\* relevant_file.rsplit('.')[-1] for the files of the model
ExtensionOf(file) ==
    CASE file = "a.py" -> "py"
      [] file = "b.py" -> "py"
      [] file = "pr_agent/tools/pr_update_changelog.py" -> "py"
      [] OTHER -> "yml"

\* lines 307-311, 344-347: the language of an extension, "python" without one
LanguageOf(extension_s) ==
    IF extension_s \in DOMAIN settings.language_extension_map
    THEN settings.language_extension_map[extension_s] ELSE "python"

\* insert_br_after_x_chars(suggestion_content, 90)
insert_br_after_x_chars(text, x) == [text |-> text, br_after |-> x]

\* lines 332-369: the table row of one suggestion
Row(s, code_snippet_link) ==
    [suggestion_content |-> insert_br_after_x_chars(s.suggestion_content, 90),
     relevant_file |-> s.relevant_file,
     relevant_lines_start |-> s.relevant_lines_start.int,
     relevant_lines_end |-> s.relevant_lines_end.int,
     code_snippet_link |-> code_snippet_link,
     existing_code |-> s.existing_code,
     improved_code |-> s.improved_code,
     language_name |-> LanguageOf(ExtensionOf(s.relevant_file)),
     details |-> ("gfm_markdown" \in supported)]

\* lines 328-330, 356-370: a label's table opened with the row, or the row
\* added to the open table
AddRow(body, visit, row) ==
    IF visit.first
    THEN Append(body, [label |-> visit.label, rows |-> <<row>>])
    ELSE [body EXCEPT ![Len(body)].rows = Append(@, row)]

\* what get_line_link returns
Link(file, first, last) == [file |-> file, first |-> first, last |-> last]

----------------------------------------------------------------------------
(* run: the data of line 59 *)

Changelog == "pr_agent/tools/pr_update_changelog.py"

\* a record of the literal; its three texts are named, not spelled out
Hard(content, file, first, last, label) ==
    Suggestion(content, "existing code of " \o content, "improved code of " \o content,
               <<label>>, file, YamlInt(first), YamlInt(last))

RunData ==
    [code_suggestions |->
       << Hard("suggestion 1", Changelog, 22, 25, "performance"),
          Hard("suggestion 2", Changelog, 55, 60, "maintainability"),
          Hard("suggestion 3", Changelog, 52, 52, "enhancement"),
          Hard("suggestion 4", Changelog, 16, 16, "best practice"),
          Hard("suggestion 5", ".github/ISSUE_TEMPLATE/sweep-bugfix.yml", 13, 13, "enhancement"),
          Hard("suggestion 6", ".github/ISSUE_TEMPLATE/sweep-feature.yml", 10, 10, "enhancement"),
          Hard("suggestion 7", ".github/ISSUE_TEMPLATE/sweep-refactor.yml", 11, 11, "enhancement") >>]

----------------------------------------------------------------------------
(* The request of one object *)

\* the model's answers of a request: one to a single prompt, or one per chunk
Responses ==
    {<<r>> : r \in Predictions} \cup SeqsUpTo(ChunkPredictions, MaxChunks)

\* final_clip_factor is in hundredths
DefaultSettings ==
    [include_improved_code |-> TRUE,
     language_extension_map |-> [yml |-> "yaml"],
     final_clip_factor |-> 100,
     num_code_suggestions |-> 1,
     num_code_suggestions_per_chunk |-> 2,
     verbosity_level |-> 1,
     auto_extended_mode |-> FALSE,
     publish_review |-> TRUE]

\* nothing called, logged or computed yet
InitLocals ==
    /\ op = "none"
    /\ result = "none"
    /\ ret = None
    /\ calls = <<>>
    /\ logs = <<>>
    /\ patches_diff = None
    /\ prediction = None
    /\ prediction_list = <<>>
    /\ patches_diff_list = <<>>
    /\ i = 0
    /\ suggestions_labels = <<>>
    /\ pr_body = <<>>
    /\ code_suggestions = <<>>
    /\ suggestion_list = <<>>
    /\ data_sorted = <<>>
    /\ named_outside = FALSE

\* an object built without arguments, extended mode off
InitObject ==
    /\ pc = "new"
    /\ InitLocals
    /\ args = None
    /\ question_str = "none"
    /\ is_extended = FALSE
    /\ num_code_suggestions = DefaultSettings.num_code_suggestions

Init ==
    /\ InitObject
    /\ data = None
    /\ responses \in Responses
    /\ settings = DefaultSettings
    /\ supported \in SUBSET {"gfm_markdown"}

\* op ends by raising
Raise ==
    /\ pc' = "done"
    /\ result' = "raised"
    /\ ret' = None

\* op ends by returning v
Return(v) ==
    /\ pc' = "done"
    /\ result' = "returned"
    /\ ret' = v

Finished(o) == pc = "done" /\ op = o

\* the chunks, or diffs, the model was called for, in call order
ModelCalls == SelectSeq(calls, LAMBDA c : c.fn = "chat_completion")

\* _get_prediction, lines 104-119: the prompt rendered with self.patches_diff,
\* chat_completion awaited; the model answers its n-th call with responses[n]
\* and fails when it has no answer
get_prediction ==
    IF Len(ModelCalls) < Len(responses)
    THEN Ok(responses[Len(ModelCalls) + 1])
    ELSE Raised

\* _prepare_prediction, line 95: get_pr_diff
PreparePrediction_get_pr_diff ==
    /\ pc = "new"
    /\ op' = "_prepare_prediction"
    /\ \/ \E d \in Diffs :
            /\ patches_diff' = d
            /\ calls' = Append(calls, Call("get_pr_diff", None, "ok"))
            /\ pc' = "prediction"
            /\ UNCHANGED <<result, ret>>
       \/ /\ calls' = Append(calls, Call("get_pr_diff", None, "raise"))
          /\ Raise
          /\ UNCHANGED patches_diff
    /\ UNCHANGED <<logs, prediction, prediction_list, patches_diff_list, data, i,
                   summLocals, code_suggestions, rankLocals, env>>

\* _prepare_prediction, line 102
PreparePrediction_get_prediction ==
    /\ pc = "prediction"
    /\ IF get_prediction.raised
       THEN /\ calls' = Append(calls, Call("chat_completion", patches_diff, "raise"))
            /\ Raise
            /\ UNCHANGED prediction
       ELSE /\ prediction' = get_prediction.val
            /\ calls' = Append(calls, Call("chat_completion", patches_diff, "ok"))
            /\ pc' = "predicted"
            /\ result' = "returned"
            /\ ret' = None
    /\ UNCHANGED <<op, logs, patches_diff, prediction_list, patches_diff_list, data,
                   i, summLocals, code_suggestions, rankLocals, env>>

\* _prepare_pr_code_suggestions, lines 121-138
PreparePrCodeSuggestions ==
    /\ pc \in {"new", "predicted"}
    /\ op' = "_prepare_pr_code_suggestions"
    /\ LET out == prepare_pr_code_suggestions(prediction)
       IN /\ IF out.raised THEN Raise /\ UNCHANGED logs
             ELSE Return(out.val)
                  /\ logs' = logs \o SkippedLog(LoadedData(prediction).code_suggestions)
          /\ calls' = IF prediction = None THEN calls
                      ELSE Append(calls, Call("load_yaml", None, "ok"))
    /\ UNCHANGED <<fields, patches_diff_list, data, i, summLocals, code_suggestions,
                   rankLocals, env>>

\* line 225: get_pr_multi_diffs returns the chunks Diff(1) .. Diff(n), n >= 0
PredictionExtended_get_pr_multi_diffs ==
    /\ pc = "new"
    /\ op' = "_prepare_prediction_extended"
    /\ \/ \E n \in 0..MaxChunks :
            /\ patches_diff_list' = [k \in 1..n |-> Diff(k)]
            /\ calls' = Append(calls, Call("get_pr_multi_diffs", None, "ok"))
            /\ pc' = "chunks"
            /\ UNCHANGED <<result, ret>>
       \/ /\ calls' = Append(calls, Call("get_pr_multi_diffs", None, "raise"))
          /\ Raise
          /\ UNCHANGED patches_diff_list
    /\ UNCHANGED <<logs, fields, data, i, summLocals, code_suggestions, rankLocals, env>>

\* lines 230-234: one round of the loop over patches_diff_list
PredictionExtended_get_prediction ==
    /\ pc = "chunks"
    /\ Len(prediction_list) < Len(patches_diff_list)
    /\ LET chunk == patches_diff_list[Len(prediction_list) + 1]
       IN /\ patches_diff' = chunk
          /\ IF get_prediction.raised
             THEN /\ calls' = Append(calls, Call("chat_completion", chunk, "raise"))
                  /\ Raise
                  /\ UNCHANGED prediction_list
             ELSE /\ prediction_list' = Append(prediction_list, get_prediction.val)
                  /\ calls' = Append(calls, Call("chat_completion", chunk, "ok"))
                  /\ UNCHANGED <<pc, result, ret>>
    /\ UNCHANGED <<op, logs, prediction, patches_diff_list, data, i, summLocals,
                   code_suggestions, rankLocals, env>>

\* lines 235-237: the loop is over, data = {}
PredictionExtended_data ==
    /\ pc = "chunks"
    /\ Len(prediction_list) = Len(patches_diff_list)
    /\ data' = EmptyDict
    /\ i' = 1
    /\ pc' = "merge"
    /\ UNCHANGED <<op, result, ret, calls, logs, fields, patches_diff_list,
                   summLocals, code_suggestions, rankLocals, env>>

\* lines 238-244: one round of the loop over prediction_list
PredictionExtended_merge ==
    /\ pc = "merge"
    /\ i <= Len(prediction_list)
    /\ prediction' = prediction_list[i]
    /\ LET out == prepare_pr_code_suggestions(prediction_list[i])
       IN IF out.raised
          THEN Raise /\ UNCHANGED <<data, i>>
          ELSE /\ data' = MergeChunk(data, out.val)
               /\ i' = i + 1
               /\ UNCHANGED <<pc, result, ret>>
    /\ calls' = Append(calls, Call("load_yaml", None, "ok"))
    /\ UNCHANGED <<op, logs, patches_diff, prediction_list, patches_diff_list,
                   summLocals, code_suggestions, rankLocals, env>>

\* lines 245-246: self.data = data; return data
PredictionExtended_return ==
    /\ pc = "merge"
    /\ i > Len(prediction_list)
    /\ Return(data)
    /\ UNCHANGED <<op, calls, logs, fields, patches_diff_list, data, i, summLocals,
                   code_suggestions, rankLocals, env>>

----------------------------------------------------------------------------
(* run and publish_summarizes_suggestions *)

\* lines 58-60: data is the literal of line 59, handed to
\* publish_summarizes_suggestions
Run ==
    /\ pc = "new"
    /\ op' = "run"
    /\ data' = RunData
    /\ pc' = "summarize"
    /\ UNCHANGED <<result, ret, calls, logs, fields, patches_diff_list, i,
                   summLocals, code_suggestions, rankLocals, env>>

\* the except clause of lines 404-405: the failure logged, the method over
SummarizeFailed ==
    /\ logs' = Append(logs, "info: failed to publish summarized code suggestions")
    /\ Return(None)

\* lines 319-325: the suggestions grouped by label
Summarize_labels ==
    /\ pc = "summarize"
    /\ LET grouped == IF HasKey(data, "code_suggestions")
                      THEN GroupByLabel(data.code_suggestions, 1, <<>>)
                      ELSE Raised
       IN IF grouped.raised
          THEN SummarizeFailed /\ UNCHANGED <<suggestions_labels, i>>
          ELSE /\ suggestions_labels' = grouped.val
               /\ i' = 1
               /\ pc' = "rows"
               /\ UNCHANGED <<logs, result, ret>>
    /\ UNCHANGED <<op, calls, fields, patches_diff_list, data, pr_body,
                   code_suggestions, rankLocals, env>>

\* lines 327-370: one round of the loops over the labels and their suggestions
Summarize_row ==
    /\ pc = "rows"
    /\ i <= Len(VisitOrder(suggestions_labels, 1))
    /\ LET visit == VisitOrder(suggestions_labels, 1)[i]
           s == visit.suggestion
       IN IF ~ LocationOk(s)
          THEN SummarizeFailed /\ UNCHANGED <<calls, pr_body, i>>
          ELSE LET link == Link(s.relevant_file, s.relevant_lines_start.int,
                                s.relevant_lines_end.int)
               IN \/ /\ calls' = Append(calls, Call("get_line_link", link, "raise"))
                     /\ SummarizeFailed
                     /\ UNCHANGED <<pr_body, i>>
                  \/ /\ calls' = Append(calls, Call("get_line_link", link, "ok"))
                     /\ IF TextsOk(s)
                        THEN /\ pr_body' = AddRow(pr_body, visit, Row(s, link))
                             /\ i' = i + 1
                             /\ UNCHANGED <<pc, logs, result, ret>>
                        ELSE SummarizeFailed /\ UNCHANGED <<pr_body, i>>
    /\ UNCHANGED <<op, fields, patches_diff_list, data, suggestions_labels,
                   code_suggestions, rankLocals, env>>

\* line 403: the comment published
Summarize_publish_comment ==
    /\ pc = "rows"
    /\ i > Len(VisitOrder(suggestions_labels, 1))
    /\ LET comment == [table |-> pr_body]
       IN \/ /\ calls' = Append(calls, Call("publish_comment", comment, "ok"))
             /\ Return(None)
             /\ UNCHANGED logs
          \/ /\ calls' = Append(calls, Call("publish_comment", comment, "raise"))
             /\ SummarizeFailed
    /\ UNCHANGED <<op, fields, patches_diff_list, data, i, summLocals,
                   code_suggestions, rankLocals, env>>

----------------------------------------------------------------------------
(* push_inline_code_suggestions *)

\* the leading blanks of line `line` of the head file, -1 when the provider's
\* diff files hold no such file (lines 193-199)
OriginalSpaces(file, line) == IF file = "a.py" THEN 4 ELSE -1

\* the leading blanks of the first line of a code text of the model
SuggestedSpaces(code) == 0

\* textwrap.indent(new_code_snippet, delta_spaces * " ").rstrip('\n')
Indent(code, delta_spaces) == [indent |-> delta_spaces, code |-> code]

\* dedent_code, lines 191-211
dedent_code(relevant_file, relevant_lines_start, new_code_snippet) ==
    LET delta_spaces == OriginalSpaces(relevant_file, relevant_lines_start)
                        - SuggestedSpaces(new_code_snippet)
    IN IF OriginalSpaces(relevant_file, relevant_lines_start) > 0 /\ delta_spaces > 0
       THEN Indent(new_code_snippet, delta_spaces)
       ELSE new_code_snippet

\* lines 151-156 do not raise
Convertible(d) ==
    /\ LocationOk(d)
    /\ HasKey(d, "suggestion_content")
    /\ HasKey(d, "improved_code")
    /\ HasKey(d, "label")

\* lines 162, 168: the body of the comment
Body(d, with_code) ==
    IF with_code
    THEN [suggestion |-> d.suggestion_content, label |-> strip(d.label, Whitespace),
          code |-> dedent_code(d.relevant_file, d.relevant_lines_start.int,
                               d.improved_code)]
    ELSE [suggestion |-> d.suggestion_content, label |-> strip(d.label, Whitespace)]

\* lines 163-165: the entry of a suggestion with its improved code
CodeSuggestion(d) ==
    [body |-> Body(d, TRUE), relevant_file |-> d.relevant_file,
     relevant_lines_start |-> d.relevant_lines_start.int,
     relevant_lines_end |-> d.relevant_lines_end.int]

\* what create_inline_comment(body, relevant_file, "", absolute_position) returns
InlineComment(d) ==
    [body |-> Body(d, FALSE), path |-> d.relevant_file,
     position |-> d.relevant_lines_end.int]

\* lines 179-182, 186-189: the provider method that publishes
PublishMethod ==
    IF settings.include_improved_code
    THEN "publish_code_suggestions" ELSE "publish_inline_comments"

NoSuggestions == [text |-> "No suggestions found to improve this PR."]

\* lines 140-147 without the test of line 143: the loop starts on any list
PushInline_start_NoEmptyTest ==
    /\ pc = "new"
    /\ op' = "push_inline_code_suggestions"
    /\ code_suggestions' = <<>>
    /\ i' = 1
    /\ pc' = "convert"
    /\ UNCHANGED <<result, ret, calls, logs, fields, patches_diff_list, data,
                   summLocals, rankLocals, env>>

\* lines 140-145: the list is empty and a comment says so, or the loop starts
PushInline_start ==
    /\ pc = "new"
    /\ op' = "push_inline_code_suggestions"
    /\ IF data.code_suggestions = <<>>
       THEN /\ logs' = Append(logs, "info: no suggestions found")
            /\ \/ /\ calls' = Append(calls, Call("publish_comment", NoSuggestions, "ok"))
                  /\ Return(None)
               \/ /\ calls' = Append(calls, Call("publish_comment", NoSuggestions, "raise"))
                  /\ Raise
            /\ UNCHANGED <<code_suggestions, i>>
       ELSE /\ code_suggestions' = <<>>
            /\ i' = 1
            /\ pc' = "convert"
            /\ UNCHANGED <<result, ret, calls, logs>>
    /\ UNCHANGED <<fields, patches_diff_list, data, summLocals, rankLocals, env>>

\* lines 158-174: a suggestion whose fields were read is converted and
\* appended, create_inline_comment returning a comment, nothing, or raising
PushInline_try(d) ==
    IF settings.include_improved_code
    THEN /\ code_suggestions' = Append(code_suggestions, CodeSuggestion(d))
         /\ UNCHANGED <<calls, logs>>
    ELSE IF "create_inline_comment" \in supported
    THEN \/ /\ calls' = Append(calls, Call("create_inline_comment",
                                            InlineComment(d), "ok"))
            /\ code_suggestions' = Append(code_suggestions, InlineComment(d))
            /\ UNCHANGED logs
         \/ /\ calls' = Append(calls, Call("create_inline_comment",
                                            InlineComment(d), "none"))
            /\ UNCHANGED <<code_suggestions, logs>>
         \/ /\ calls' = Append(calls, Call("create_inline_comment",
                                            InlineComment(d), "raise"))
            /\ UNCHANGED <<code_suggestions, logs>>
    ELSE /\ logs' = Append(logs, "error: inline comments are not supported")
         /\ UNCHANGED <<code_suggestions, calls>>

\* the loop of lines 147-177 with the try around it instead of inside it: a
\* suggestion that cannot be read ends the loop
PushInline_convert_Aborting ==
    /\ pc = "convert"
    /\ i <= Len(data.code_suggestions)
    /\ LET d == data.code_suggestions[i]
       IN IF ~ Convertible(d)
          THEN /\ i' = Len(data.code_suggestions) + 1
               /\ UNCHANGED <<code_suggestions, calls, logs>>
          ELSE /\ i' = i + 1
               /\ PushInline_try(d)
    /\ UNCHANGED <<pc, op, result, ret, fields, patches_diff_list, data, summLocals,
                   rankLocals, env>>

\* lines 147-177: one round of the loop over data['code_suggestions']
PushInline_convert ==
    /\ pc = "convert"
    /\ i <= Len(data.code_suggestions)
    /\ i' = i + 1
    /\ LET d == data.code_suggestions[i]
       IN IF ~ Convertible(d)
          THEN UNCHANGED <<code_suggestions, calls, logs>>
          ELSE PushInline_try(d)
    /\ UNCHANGED <<pc, op, result, ret, fields, patches_diff_list, data, summLocals,
                   rankLocals, env>>

\* lines 179-184: the whole batch published
PushInline_publish ==
    /\ pc = "convert"
    /\ i > Len(data.code_suggestions)
    /\ LET batch == [batch |-> code_suggestions]
       IN \/ /\ calls' = Append(calls, Call(PublishMethod, batch, "ok"))
             /\ Return(None)
             /\ UNCHANGED <<logs, i>>
          \/ /\ calls' = Append(calls, Call(PublishMethod, batch, "fail"))
             /\ logs' = Append(logs, "info: trying to publish each suggestion separately")
             /\ i' = 1
             /\ pc' = "separately"
             /\ UNCHANGED <<result, ret>>
          \/ /\ calls' = Append(calls, Call(PublishMethod, batch, "raise"))
             /\ Raise
             /\ UNCHANGED <<logs, i>>
    /\ UNCHANGED <<op, fields, patches_diff_list, data, summLocals, code_suggestions,
                   rankLocals, env>>

\* lines 185-189: one round of the loop over code_suggestions
PushInline_separately ==
    /\ pc = "separately"
    /\ i <= Len(code_suggestions)
    /\ LET one == [batch |-> <<code_suggestions[i]>>]
       IN \/ \E res \in {"ok", "fail"} :
                /\ calls' = Append(calls, Call(PublishMethod, one, res))
                /\ i' = i + 1
                /\ UNCHANGED <<pc, result, ret>>
          \/ /\ calls' = Append(calls, Call(PublishMethod, one, "raise"))
             /\ Raise
             /\ UNCHANGED i
    /\ UNCHANGED <<op, logs, fields, patches_diff_list, data, summLocals,
                   code_suggestions, rankLocals, env>>

\* the loop of lines 185-189 is over
PushInline_return ==
    /\ pc = "separately"
    /\ i > Len(code_suggestions)
    /\ Return(None)
    /\ UNCHANGED <<op, calls, logs, fields, patches_diff_list, data, i, summLocals,
                   code_suggestions, rankLocals, env>>

\* publish_summarizes_suggestions(data) called
PublishSummarizes_call ==
    /\ pc = "new"
    /\ op' = "publish_summarizes_suggestions"
    /\ pc' = "summarize"
    /\ UNCHANGED <<result, ret, calls, logs, fields, patches_diff_list, data, i,
                   summLocals, code_suggestions, rankLocals, env>>

Next ==
    \/ PreparePrediction_get_pr_diff
    \/ PreparePrediction_get_prediction
    \/ PreparePrCodeSuggestions
    \/ PredictionExtended_get_pr_multi_diffs
    \/ PredictionExtended_get_prediction
    \/ PredictionExtended_data
    \/ PredictionExtended_merge
    \/ PredictionExtended_return
    \/ Run
    \/ Summarize_labels
    \/ Summarize_row
    \/ Summarize_publish_comment

Spec == Init /\ [][Next]_vars

----------------------------------------------------------------------------
(* rank_suggestions *)

\* the suggestions of a list handed to rank_suggestions, all with
\* existing_code # improved_code
RankNames == <<"s1", "s2", "s3", "s4", "s5">>
RankInput(n) ==
    [k \in 1..n |->
        Suggestion(RankNames[k], "x", "y", Enhancement, "a.py", YamlInt(k), YamlInt(k))]

\* a Python index into a list of length n as a position: k counts from 0, and
\* from the end when negative; 0 when it is out of range (IndexError)
Position(k, n) ==
    IF 0 <= k /\ k < n THEN k + 1
    ELSE IF k < 0 /\ 0 - k <= n THEN n + k + 1
    ELSE 0

\* line 285: data_sorted[importance_order - 1] = suggestion_list[suggestion_number - 1]
Place(sorted, list, suggestion_number, importance_order) ==
    LET from == Position(suggestion_number - 1, Len(list))
        to == Position(importance_order - 1, Len(sorted))
    IN IF from = 0 \/ to = 0 THEN Raised
       ELSE Ok([sorted EXCEPT ![to] = list[from]])

Max(a, b) == IF a >= b THEN a ELSE b

\* lines 287-295: the list clipped to int(0.5 + max_len * final_clip_factor)
Clip(sorted) ==
    IF settings.final_clip_factor # 100
    THEN LET max_len == Max(Len(sorted), Max(settings.num_code_suggestions,
                                             settings.num_code_suggestions_per_chunk))
             new_len == (50 + max_len * settings.final_clip_factor) \div 100
         IN IF new_len < Len(sorted) THEN SubSeq(sorted, 1, new_len) ELSE sorted
    ELSE sorted

\* the except clause of lines 296-299
RankFailed ==
    /\ logs' = IF settings.verbosity_level >= 1
               THEN Append(logs, "info: could not sort suggestions") ELSE logs
    /\ data_sorted' = suggestion_list
    /\ Return(suggestion_list)

\* lines 259-262: the list copied, data_sorted = [[]] * len(suggestion_list)
Rank_start ==
    /\ pc = "new"
    /\ op' = "rank_suggestions"
    /\ suggestion_list' = data.code_suggestions
    /\ data_sorted' = [k \in 1..Len(data.code_suggestions) |-> EmptyList]
    /\ pc' = "rank"
    /\ UNCHANGED <<result, ret, calls, logs, fields, patches_diff_list, data, i,
                   summLocals, code_suggestions, named_outside, env>>

\* lines 264-282: the model asked, its answer loaded, 'Sort Order' looked up
Rank_chat_completion ==
    /\ pc = "rank"
    /\ \/ /\ calls' = Append(calls, Call("chat_completion", None, "raise"))
          /\ RankFailed
          /\ UNCHANGED i
       \/ \E yields \in {"none", "no Sort Order"} :
             /\ calls' = calls \o <<Call("chat_completion", None, "ok"),
                                    Call("load_yaml", [yields |-> yields], "ok")>>
             /\ RankFailed
             /\ UNCHANGED i
       \/ /\ calls' = calls \o <<Call("chat_completion", None, "ok"),
                                 Call("load_yaml", [yields |-> "Sort Order"], "ok")>>
          /\ i' = 1
          /\ pc' = "order"
          /\ UNCHANGED <<result, ret, logs, data_sorted>>
    /\ UNCHANGED <<op, fields, patches_diff_list, data, summLocals, code_suggestions,
                   suggestion_list, named_outside, env>>

\* lines 282-285: one round of the loop over sort_order['Sort Order'], the
\* entry naming a suggestion number and an importance order, or lacking one
Rank_place ==
    /\ pc = "order"
    /\ i <= MaxSortOrder
    /\ \/ \E suggestion_number, importance_order \in (-1)..(Len(suggestion_list) + 1) :
             LET placed == Place(data_sorted, suggestion_list, suggestion_number,
                                 importance_order)
             IN /\ named_outside' = (named_outside
                                     \/ suggestion_number \notin 1..Len(suggestion_list))
                /\ IF placed.raised
                   THEN RankFailed /\ UNCHANGED i
                   ELSE /\ data_sorted' = placed.val
                        /\ i' = i + 1
                        /\ UNCHANGED <<pc, result, ret, logs>>
       \/ /\ RankFailed
          /\ UNCHANGED <<i, named_outside>>
    /\ UNCHANGED <<op, calls, fields, patches_diff_list, data, summLocals,
                   code_suggestions, suggestion_list, env>>

\* lines 287-301: the loop is over, the list clipped and returned
Rank_return ==
    /\ pc = "order"
    /\ data_sorted' = Clip(data_sorted)
    /\ Return(Clip(data_sorted))
    /\ UNCHANGED <<op, calls, logs, fields, patches_diff_list, data, i, summLocals,
                   code_suggestions, suggestion_list, named_outside, env>>

\* rank_suggestions handed a list of suggestions
InitRank ==
    /\ InitObject
    /\ \E n \in 0..MaxRanked : data = [code_suggestions |-> RankInput(n)]
    /\ responses = <<>>
    /\ settings \in {[DefaultSettings EXCEPT !.final_clip_factor = f] : f \in {100, 50}}
    /\ supported = {}

NextRank ==
    \/ Rank_start
    \/ Rank_chat_completion
    \/ Rank_place
    \/ Rank_return

SpecRank == InitRank /\ [][NextRank]_vars

\* a publisher handed a suggestion list
InitPublish ==
    /\ InitObject
    /\ data \in PublishInputs
    /\ responses = <<>>
    /\ settings \in {[DefaultSettings EXCEPT !.include_improved_code = b] :
                        b \in BOOLEAN}
    /\ supported \in {{}, {"gfm_markdown", "create_inline_comment"}}

NextPublish ==
    \/ PublishSummarizes_call
    \/ Summarize_labels
    \/ Summarize_row
    \/ Summarize_publish_comment
    \/ PushInline_start
    \/ PushInline_convert
    \/ PushInline_publish
    \/ PushInline_separately
    \/ PushInline_return

SpecPublish == InitPublish /\ [][NextPublish]_vars

----------------------------------------------------------------------------
(* PRQuestions.answer *)

\* the texts the model answers a question with
AnswerTexts == SeqsUpTo({" ", "a"}, MaxAnswerLen)

Questions == {"q1", "q2"}

Preparing == [text |-> "Preparing answer...", is_temporary |-> TRUE]

\* PRQuestions._get_prediction, lines 52-64: the prompt rendered with
\* self.patches_diff, chat_completion awaited; the model answers its n-th
\* call with responses[n] and fails when it has no answer
PRQuestions_get_prediction ==
    IF Len(ModelCalls) < Len(responses)
    THEN Ok(responses[Len(ModelCalls) + 1])
    ELSE Raised

\* _prepare_pr_answer, lines 66-71
prepare_pr_answer ==
    [question |-> question_str, answer |-> strip(prediction, Whitespace)]

\* the step of answer that follows a step
AnswerThen_ModelFirst(step) ==
    CASE step = "preparing" -> "get_prediction"
      [] step = "get_prediction" -> "get_pr_diff"
      [] step = "get_pr_diff" -> "publish_answer"
      [] step = "publish_answer" -> "remove_initial_comment"

\* lines 38-49: the order of the statements of answer
AnswerThen(step) ==
    CASE step = "preparing" -> "get_pr_diff"
      [] step = "get_pr_diff" -> "get_prediction"
      [] step = "get_prediction" -> "publish_answer"
      [] step = "publish_answer" -> "remove_initial_comment"

\* what a step of answer leaves alone besides the fields it assigns
AnswerUnchanged ==
    UNCHANGED <<op, logs, prediction_list, patches_diff_list, data, i, summLocals,
                code_suggestions, rankLocals, env>>

\* lines 37-39: the temporary comment, when reviews are published
Answer_preparing ==
    /\ pc = "new"
    /\ op' = "answer"
    /\ IF settings.publish_review
       THEN \/ /\ calls' = Append(calls, Call("publish_comment", Preparing, "ok"))
               /\ pc' = AnswerThen("preparing")
               /\ UNCHANGED <<result, ret>>
            \/ /\ calls' = Append(calls, Call("publish_comment", Preparing, "raise"))
               /\ Raise
       ELSE /\ pc' = AnswerThen("preparing")
            /\ UNCHANGED <<calls, result, ret>>
    /\ UNCHANGED <<logs, fields, patches_diff_list, data, i, summLocals,
                   code_suggestions, rankLocals, env>>

\* lines 40-41
Answer_get_pr_diff ==
    /\ pc = "get_pr_diff"
    /\ \/ \E d \in Diffs :
             /\ patches_diff' = d
             /\ calls' = Append(calls, Call("get_pr_diff", None, "ok"))
             /\ pc' = AnswerThen("get_pr_diff")
             /\ UNCHANGED <<result, ret>>
       \/ /\ calls' = Append(calls, Call("get_pr_diff", None, "raise"))
          /\ Raise
          /\ UNCHANGED patches_diff
    /\ UNCHANGED prediction
    /\ AnswerUnchanged

\* lines 42-43
Answer_get_prediction ==
    /\ pc = "get_prediction"
    /\ IF PRQuestions_get_prediction.raised
       THEN /\ calls' = Append(calls, Call("chat_completion", patches_diff, "raise"))
            /\ Raise
            /\ UNCHANGED prediction
       ELSE /\ prediction' = PRQuestions_get_prediction.val
            /\ calls' = Append(calls, Call("chat_completion", patches_diff, "ok"))
            /\ pc' = AnswerThen("get_prediction")
            /\ UNCHANGED <<result, ret>>
    /\ UNCHANGED patches_diff
    /\ AnswerUnchanged

\* lines 44-48: the answer prepared, and published when reviews are
Answer_publish ==
    /\ pc = "publish_answer"
    /\ IF settings.publish_review
       THEN \/ /\ calls' = Append(calls, Call("publish_comment", prepare_pr_answer, "ok"))
               /\ pc' = AnswerThen("publish_answer")
               /\ UNCHANGED <<result, ret>>
            \/ /\ calls' = Append(calls, Call("publish_comment", prepare_pr_answer, "raise"))
               /\ Raise
       ELSE /\ UNCHANGED calls
            /\ Return("")
    /\ UNCHANGED fields
    /\ AnswerUnchanged

\* lines 49-50
Answer_remove_initial_comment ==
    /\ pc = "remove_initial_comment"
    /\ \/ /\ calls' = Append(calls, Call("remove_initial_comment", None, "ok"))
          /\ Return("")
       \/ /\ calls' = Append(calls, Call("remove_initial_comment", None, "raise"))
          /\ Raise
    /\ UNCHANGED fields
    /\ AnswerUnchanged

\* a PRQuestions object asked a question
InitAnswer ==
    /\ pc = "new"
    /\ InitLocals
    /\ data = None
    /\ responses \in {<<>>} \cup {<<t>> : t \in AnswerTexts}
    /\ settings \in {[DefaultSettings EXCEPT !.publish_review = b] : b \in BOOLEAN}
    /\ supported = {}
    /\ args = None
    /\ question_str \in Questions
    /\ is_extended = FALSE
    /\ num_code_suggestions = settings.num_code_suggestions

NextAnswer ==
    \/ Answer_preparing
    \/ Answer_get_pr_diff
    \/ Answer_get_prediction
    \/ Answer_publish
    \/ Answer_remove_initial_comment

SpecAnswer == InitAnswer /\ [][NextAnswer]_vars

----------------------------------------------------------------------------
(* PRCodeSuggestions.__init__ and _get_is_extended *)

\* an argument that is a text, as the pieces a search for a word sees
Text(words) == [words |-> words]

IsText(arg) == "words" \in DOMAIN arg

\* the arguments an object is built with: the flag, another flag, an
\* argument that holds the word inside another one, and one that is no text
ExtendedFlag == Text(<<"--", "extended">>)
ArgPool ==
    {ExtendedFlag,
     Text(<<"--", "verbose">>),
     Text(<<"--un", "extended", "_limit">>),
     YamlInt(1)}

\* line 215: "extended" in arg
Contains(arg, word) == \E k \in 1..Len(arg.words) : arg.words[k] = word

\* the args parameter when it is a list
ArgList(items) == [kind |-> "list", val |-> items]

\* line 30: args or []
OrEmpty(a) == IF a = None THEN <<>> ELSE a.val

\* line 215 with the argument compared to the flag
ArgEnables_FlagOnly(arg) == arg = ExtendedFlag

\* line 215: the test one argument passes
ArgEnables(arg) == Contains(arg, "extended")

\* _get_is_extended, lines 213-221: the list of line 215 is built from every
\* argument before any() looks at it; the toggle is read only when no
\* argument enables extended mode
get_is_extended(a) ==
    IF \E k \in 1..Len(a) : ~ IsText(a[k]) THEN Raised
    ELSE IF \E k \in 1..Len(a) : ArgEnables(a[k]) THEN Ok(TRUE)
    ELSE IF ~ HasKey(settings, "auto_extended_mode") THEN Raised
    ELSE Ok(settings.auto_extended_mode)

\* what _get_is_extended logs, lines 216 and 219
ExtendedLog(a) ==
    IF get_is_extended(a).raised \/ ~ get_is_extended(a).val THEN <<>>
    ELSE IF \E k \in 1..Len(a) : ArgEnables(a[k])
    THEN <<"info: extended mode is enabled by the flag">>
    ELSE <<"info: extended mode is enabled by the configuration">>

\* lines 29-32
Construct_is_extended ==
    /\ pc = "init"
    /\ op' = "__init__"
    /\ is_extended' = IF get_is_extended(OrEmpty(args)).raised THEN FALSE
                      ELSE get_is_extended(OrEmpty(args)).val
    /\ logs' = logs \o ExtendedLog(OrEmpty(args))
    /\ pc' = "init_vars"
    /\ UNCHANGED <<result, ret, calls, fields, patches_diff_list, data, i, summLocals,
                   code_suggestions, rankLocals, responses, settings, supported,
                   inputs, num_code_suggestions>>

\* lines 33-56
Construct_vars ==
    /\ pc = "init_vars"
    /\ num_code_suggestions' = IF is_extended
                               THEN settings.num_code_suggestions_per_chunk
                               ELSE settings.num_code_suggestions
    /\ pc' = "new"
    /\ UNCHANGED <<op, result, ret, calls, logs, fields, patches_diff_list, data, i,
                   summLocals, code_suggestions, rankLocals, responses, settings,
                   supported, inputs, is_extended>>

\* an object about to be built; is_extended and num_code_suggestions are
\* not set yet
InitConstruct ==
    /\ pc = "init"
    /\ InitLocals
    /\ data = None
    /\ responses = <<>>
    /\ settings \in {[DefaultSettings EXCEPT !.auto_extended_mode = b] : b \in BOOLEAN}
                    \cup {RemoveKey(DefaultSettings, "auto_extended_mode")}
    /\ supported = {}
    /\ \/ args = None
       \/ args \in {ArgList(items) : items \in SeqsUpTo(ArgPool, MaxArgs)}
    /\ question_str = "none"
    /\ is_extended = FALSE
    /\ num_code_suggestions = 0

NextConstruct ==
    \/ Construct_is_extended
    \/ Construct_vars

SpecConstruct == InitConstruct /\ [][NextConstruct]_vars

----------------------------------------------------------------------------
(* Claims on the response parser *)

\* the list the loaded response holds, when it holds one
HoldsList(p) == p # None /\ HasKey(LoadedData(p), "code_suggestions")

\* every record of the list has both code fields
WellFormed(items) ==
    \A j \in 1..Len(items) :
        HasKey(items[j], "existing_code") /\ HasKey(items[j], "improved_code")

\* C1: for a parsed response holding a list of suggestion records,
\* _prepare_pr_code_suggestions returns under 'code_suggestions' exactly the
\* records whose existing_code differs from improved_code, in their original
\* relative order.
C1_ExactlyTheDifferingRecords ==
    (/\ Finished("_prepare_pr_code_suggestions")
     /\ HoldsList(prediction)
     /\ WellFormed(LoadedData(prediction).code_suggestions))
    => /\ result = "returned"
       /\ HasKey(ret, "code_suggestions")
       /\ ret.code_suggestions =
              SelectSeq(LoadedData(prediction).code_suggestions,
                        LAMBDA s : s.existing_code # s.improved_code)

\* a response of three records of which the middle one is a no-op was parsed
\* and the two others were returned, in order
C1_Witness ==
    /\ Finished("_prepare_pr_code_suggestions")
    /\ HoldsList(prediction)
    /\ LET items == LoadedData(prediction).code_suggestions
       IN /\ Len(items) = 3
          /\ WellFormed(items)
          /\ items[2].existing_code = items[2].improved_code
          /\ items[1] # items[3]
          /\ result = "returned"
          /\ ret.code_suggestions = <<items[1], items[3]>>

\* the response is malformed: nothing loaded, no 'code_suggestions' key, or a
\* record lacking a code field
Malformed(p) ==
    /\ p # None
    /\ \/ ~ HasKey(LoadedData(p), "code_suggestions")
       \/ ~ WellFormed(LoadedData(p).code_suggestions)

\* C2: on a malformed response _prepare_pr_code_suggestions returns an empty
\* suggestion result and logs the failure; no exception escapes.
C2_MalformedYieldsEmpty ==
    (Finished("_prepare_pr_code_suggestions") /\ Malformed(prediction))
    => /\ result = "returned"
       /\ HasKey(ret, "code_suggestions")
       /\ ret.code_suggestions = <<>>
       /\ logs # <<>>

----------------------------------------------------------------------------
(* Claims on run *)

\* the comments the git provider accepted, in order
PublishedComments ==
    SelectSeq(calls, LAMBDA c : c.fn = "publish_comment" /\ c.res = "ok")

RECURSIVE RowsOf(_, _)
RowsOf(body, g) ==
    IF g > Len(body) THEN <<>> ELSE body[g].rows \o RowsOf(body, g + 1)

\* the rows of the suggestion tables published, in order
RECURSIVE PublishedRowsFrom(_)
PublishedRowsFrom(k) ==
    IF k > Len(PublishedComments) THEN <<>>
    ELSE (IF "table" \in DOMAIN PublishedComments[k].arg
          THEN RowsOf(PublishedComments[k].arg.table, 1) ELSE <<>>)
         \o PublishedRowsFrom(k + 1)

PublishedRows == PublishedRowsFrom(1)

NoCallRaised == \A k \in 1..Len(calls) : calls[k].res # "raise"

\* the response of two suggestions: a no-op and a real one
NoOpSuggestion == Basic("s1", "x", "x")
RealSuggestion == Basic("s2", "y", "x")
CannedResponse == ModelText(YamlList(<<NoOpSuggestion, RealSuggestion>>))

\* C4: run, with the model answering with two suggestions of which one is a
\* no-op, publishes exactly one suggestion: the one whose improved_code
\* differs.
C4_RunPublishesTheRealSuggestion ==
    (Finished("run") /\ responses = <<CannedResponse>> /\ NoCallRaised)
    => /\ Len(PublishedRows) = 1
       /\ PublishedRows[1].suggestion_content.text = RealSuggestion.suggestion_content
       /\ PublishedRows[1].existing_code = RealSuggestion.existing_code
       /\ PublishedRows[1].improved_code = RealSuggestion.improved_code

\* C5: in run a comment is published only after a diff was fetched, then the
\* model was called, then its response was parsed.
C5_RunPublishesAfterFetchInferParse ==
    op = "run"
    => \A k \in 1..Len(calls) :
          calls[k].fn = "publish_comment"
          => \E a, b, c \in 1..k :
                /\ a < b /\ b < c /\ c < k
                /\ calls[a].fn \in {"get_pr_diff", "get_pr_multi_diffs"}
                /\ calls[b].fn = "chat_completion"
                /\ calls[c].fn = "load_yaml"

----------------------------------------------------------------------------
(* Claims on extended mode *)

\* the lists _prepare_pr_code_suggestions produces for predictions[j..],
\* concatenated
RECURSIVE ConcatPerChunk(_, _)
ConcatPerChunk(predictions, j) ==
    IF j > Len(predictions) THEN <<>>
    ELSE prepare_pr_code_suggestions(predictions[j]).val.code_suggestions
         \o ConcatPerChunk(predictions, j + 1)

OneCallPerChunk ==
    /\ Len(ModelCalls) = Len(patches_diff_list)
    /\ \A k \in 1..Len(ModelCalls) : ModelCalls[k].arg = patches_diff_list[k]

\* C7 as stated: one model call per chunk in chunk order, and the returned
\* 'code_suggestions' is the concatenation in chunk order of the per-chunk
\* lists.
C7_ConcatenationAlways ==
    (Finished("_prepare_prediction_extended") /\ result = "returned")
    => /\ OneCallPerChunk
       /\ HasKey(ret, "code_suggestions")
       /\ ret.code_suggestions = ConcatPerChunk(prediction_list, 1)

\* C7 amended: one model call per chunk in chunk order; with at least one
\* chunk the returned 'code_suggestions' is the concatenation in chunk order of
\* the per-chunk lists, and with no chunk the returned dict is empty.
C7_ConcatenationOfChunks ==
    (Finished("_prepare_prediction_extended") /\ result = "returned")
    => /\ OneCallPerChunk
       /\ IF patches_diff_list = <<>>
          THEN ret = EmptyDict
          ELSE /\ HasKey(ret, "code_suggestions")
               /\ ret.code_suggestions = ConcatPerChunk(prediction_list, 1)

\* two chunks were answered, each with a list that keeps a record, and the
\* result holds the first chunk's record before the second's
C7_Witness ==
    /\ Finished("_prepare_prediction_extended")
    /\ result = "returned"
    /\ Len(patches_diff_list) = 2
    /\ Len(ret.code_suggestions) >= 2
    /\ ret.code_suggestions[1] # ret.code_suggestions[2]
    /\ prepare_pr_code_suggestions(prediction_list[1]).val.code_suggestions # <<>>
    /\ prepare_pr_code_suggestions(prediction_list[2]).val.code_suggestions # <<>>

----------------------------------------------------------------------------
(* Claims on the publishers *)

\* the calls that publish suggestions: the batch first, then one by one
PublishCalls ==
    SelectSeq(calls, LAMBDA c : c.fn \in {"publish_code_suggestions",
                                          "publish_inline_comments"})

\* C3: in push_inline_code_suggestions, once the batch publish reports
\* failure, every item of the batch is submitted on its own, whatever the
\* outcome (unsuccessful or raising) of the submissions before it.
C3_EveryItemSubmittedAfterBatchFailure ==
    (/\ Finished("push_inline_code_suggestions")
     /\ PublishCalls # <<>>
     /\ PublishCalls[1].res = "fail")
    => /\ Len(PublishCalls) = 1 + Len(code_suggestions)
       /\ \A k \in 1..Len(code_suggestions) :
             PublishCalls[k + 1].arg.batch = <<code_suggestions[k]>>

\* C8: publish_summarizes_suggestions and push_inline_code_suggestions return
\* normally whatever the git provider's calls do.
C8_PublishersNeverRaise ==
    (pc = "done" /\ op \in {"publish_summarizes_suggestions",
                            "push_inline_code_suggestions"})
    => result = "returned"

\* the row shows the suggestion
RowShows(row, s) ==
    /\ row.suggestion_content.text = s.suggestion_content
    /\ row.relevant_file = s.relevant_file
    /\ row.existing_code = s.existing_code
    /\ row.improved_code = s.improved_code

\* where a label first occurs in the list
FirstWith(items, label) ==
    CHOOSE k \in 1..Len(items) :
        /\ StripLabel(items[k].label) = label
        /\ \A m \in 1..(k - 1) : StripLabel(items[m].label) # label

\* every suggestion of items is shown exactly once, in the table of its own
\* label; tables in order of first occurrence, rows in input order
GroupedByLabel(table, items) ==
    /\ \A g, h \in 1..Len(table) : g # h => table[g].label # table[h].label
    /\ \A k \in 1..Len(items) :
          \E g \in 1..Len(table) : table[g].label = StripLabel(items[k].label)
    /\ \A g \in 1..Len(table) :
          LET mine == SelectSeq(items, LAMBDA s : StripLabel(s.label) = table[g].label)
          IN /\ mine # <<>>
             /\ Len(table[g].rows) = Len(mine)
             /\ \A m \in 1..Len(mine) : RowShows(table[g].rows[m], mine[m])
    /\ \A g, h \in 1..Len(table) :
          g < h => FirstWith(items, table[g].label) < FirstWith(items, table[h].label)

\* every record has the fields the table needs, with integer line numbers
AllWhole(items) ==
    \A k \in 1..Len(items) :
        HasKey(items[k], "label") /\ LocationOk(items[k]) /\ TextsOk(items[k])

\* C10 as stated: publish_summarizes_suggestions publishes exactly one comment
\* for the whole list, where every suggestion appears exactly once in the
\* group of its stripped label, groups in order of first occurrence and
\* suggestions of a group in input order.
C10_OneGroupedCommentAlways ==
    Finished("publish_summarizes_suggestions")
    => /\ Len(PublishedComments) = 1
       /\ GroupedByLabel(PublishedComments[1].arg.table, data.code_suggestions)

\* C10 amended: when every suggestion has its fields with integer line numbers
\* and no git provider call raises, exactly one comment is published and it
\* groups the suggestions as stated; otherwise no comment is published.
C10_OneGroupedCommentUnlessFailure ==
    Finished("publish_summarizes_suggestions")
    => IF AllWhole(data.code_suggestions) /\ NoCallRaised
       THEN /\ Len(PublishedComments) = 1
            /\ GroupedByLabel(PublishedComments[1].arg.table, data.code_suggestions)
       ELSE PublishedComments = <<>>

\* three suggestions labelled e, "p" and 'e' were published as two tables,
\* the first with the first and the third suggestion
C10_Witness ==
    /\ Finished("publish_summarizes_suggestions")
    /\ Len(PublishedComments) = 1
    /\ Len(data.code_suggestions) = 3
    /\ data.code_suggestions[1].label # data.code_suggestions[3].label
    /\ LET table == PublishedComments[1].arg.table
       IN /\ Len(table) = 2
          /\ Len(table[1].rows) = 2
          /\ RowShows(table[1].rows[1], data.code_suggestions[1])
          /\ RowShows(table[1].rows[2], data.code_suggestions[3])
          /\ RowShows(table[2].rows[1], data.code_suggestions[2])

----------------------------------------------------------------------------
(* Claims on rank_suggestions *)

\* a suggestion record whose existing code differs from its improved code
RealSuggestionRecord(s) ==
    /\ HasKey(s, "existing_code")
    /\ HasKey(s, "improved_code")
    /\ s.existing_code # s.improved_code

\* the list an operation that produces suggestions returned
ProducedList ==
    IF op = "rank_suggestions" THEN ret
    ELSE IF HasKey(ret, "code_suggestions") THEN ret.code_suggestions
    ELSE <<>>

\* C6: every element of a suggestion list produced for the publishers, by
\* parsing, by extended-mode concatenation or by rank_suggestions, is a
\* suggestion record whose existing code differs from its improved code.
C6_ProducedSuggestionsAreReal ==
    (/\ pc = "done"
     /\ result = "returned"
     /\ op \in {"_prepare_pr_code_suggestions", "_prepare_prediction_extended",
                "rank_suggestions"})
    => \A k \in 1..Len(ProducedList) : RealSuggestionRecord(ProducedList[k])

\* something failed inside rank_suggestions
RankFailure ==
    \/ \E k \in 1..Len(calls) :
          \/ calls[k].fn = "chat_completion" /\ calls[k].res = "raise"
          \/ calls[k].fn = "load_yaml" /\ calls[k].arg.yields # "Sort Order"
    \/ named_outside

\* C9: when the model call raises, the ranking response cannot be parsed or
\* lacks 'Sort Order', or a suggestion number outside the list is named,
\* rank_suggestions does not raise and returns its input unchanged.
C9_FailureReturnsInputUnchanged ==
    (Finished("rank_suggestions") /\ RankFailure)
    => /\ result = "returned"
       /\ ret = data.code_suggestions

----------------------------------------------------------------------------
(* Claims on PRQuestions.answer *)

\* the collaborator calls of answer when reviews are published
AnswerCalls ==
    <<"publish_comment", "get_pr_diff", "chat_completion", "publish_comment",
      "remove_initial_comment">>

\* C11: with publishing enabled, the collaborator calls of answer are at every
\* moment the first calls of: temporary comment, diff fetch, model call,
\* answer comment, remove_initial_comment; a call is made only after the one
\* before it has returned, and when answer returns each was made exactly once.
C11_AnswerCallsInOrder ==
    (op = "answer" /\ settings.publish_review)
    => /\ Len(calls) <= Len(AnswerCalls)
       /\ \A k \in 1..Len(calls) : calls[k].fn = AnswerCalls[k]
       /\ \A k \in 1..(Len(calls) - 1) : calls[k].res = "ok"
       /\ Len(calls) >= 1 => calls[1].arg = Preparing
       /\ Len(calls) >= 4 => calls[4].arg = prepare_pr_answer
       /\ (pc = "done" /\ result = "returned")
          => /\ Len(calls) = Len(AnswerCalls)
             /\ calls[Len(calls)].res = "ok"

\* answer returned after its five calls, the answer stripped of whitespace
C11_Witness ==
    /\ Finished("answer")
    /\ settings.publish_review
    /\ result = "returned"
    /\ Len(calls) = 5
    /\ prediction = <<" ", "a", " ">>
    /\ calls[4].arg.answer = <<"a">>

\* the temporary comment was published
PreparingPublished ==
    \E k \in 1..Len(calls) : calls[k] = Call("publish_comment", Preparing, "ok")

\* C16: when answer has finished and the temporary comment was published,
\* remove_initial_comment has been called.
C16_TemporaryCommentRemoved ==
    (Finished("answer") /\ PreparingPublished)
    => \E k \in 1..Len(calls) : calls[k].fn = "remove_initial_comment"

----------------------------------------------------------------------------
(* Claims on the ranking order *)

\* rank_suggestions went through its except clause
RankExcepted ==
    \E k \in 1..Len(logs) : logs[k] = "info: could not sort suggestions"

----------------------------------------------------------------------------
(* Claims on the conversion of push_inline_code_suggestions *)

\* the suggestions whose fields can be read, in input order
ConvertibleItems == SelectSeq(data.code_suggestions, Convertible)

InlineCalls == SelectSeq(calls, LAMBDA c : c.fn = "create_inline_comment")

\* the batch handed to the git provider
Batch == PublishCalls[1].arg.batch

\* C13: the batch handed to the git provider holds, in input order, the
\* conversion of every suggestion that has its fields with integer line
\* numbers and for which create_inline_comment, when it is used, returned a
\* comment: a suggestion that cannot be converted is left out alone.
C13_UnconvertibleSkippedAlone ==
    (op = "push_inline_code_suggestions" /\ PublishCalls # <<>>)
    => IF settings.include_improved_code
       THEN /\ Len(Batch) = Len(ConvertibleItems)
            /\ \A k \in 1..Len(Batch) : Batch[k] = CodeSuggestion(ConvertibleItems[k])
       ELSE IF "create_inline_comment" \in supported
       THEN /\ Len(InlineCalls) = Len(ConvertibleItems)
            /\ \A k \in 1..Len(InlineCalls) :
                  InlineCalls[k].arg = InlineComment(ConvertibleItems[k])
            /\ LET made == SelectSeq(InlineCalls, LAMBDA c : c.res = "ok")
               IN /\ Len(Batch) = Len(made)
                  /\ \A k \in 1..Len(Batch) : Batch[k] = made[k].arg
       ELSE Batch = <<>>

\* of three suggestions the first lacks a field and create_inline_comment
\* raised for the second: the batch holds the third alone
C13_Witness ==
    /\ op = "push_inline_code_suggestions"
    /\ PublishCalls # <<>>
    /\ ~ settings.include_improved_code
    /\ Len(data.code_suggestions) = 3
    /\ ~ Convertible(data.code_suggestions[1])
    /\ Len(InlineCalls) = 2
    /\ InlineCalls[1].res = "raise"
    /\ Batch = <<InlineComment(data.code_suggestions[3])>>

\* C14: when the suggestion list is empty, push_inline_code_suggestions makes
\* one call, publish_comment('No suggestions found to improve this PR.'), and
\* no call to publish_code_suggestions, publish_inline_comments or
\* create_inline_comment.
C14_EmptyListOneComment ==
    (Finished("push_inline_code_suggestions") /\ data.code_suggestions = <<>>)
    => calls = <<Call("publish_comment", NoSuggestions, calls[1].res)>>

\* the comment about the empty list was published
C14_Witness ==
    /\ Finished("push_inline_code_suggestions")
    /\ data.code_suggestions = <<>>
    /\ calls = <<Call("publish_comment", NoSuggestions, "ok")>>
    /\ result = "returned"

----------------------------------------------------------------------------
(* Claims on extended mode *)

\* the object is built
Built == pc = "new" /\ op = "__init__"

ToggleOn == HasKey(settings, "auto_extended_mode") /\ settings.auto_extended_mode

\* the per-prompt count follows self.is_extended
CountFollowsMode ==
    num_code_suggestions = IF is_extended THEN settings.num_code_suggestions_per_chunk
                           ELSE settings.num_code_suggestions

====
